---- MODULE Spec2Model ----
(***************************************************************************)
(* BIP-37 Bloom filter (dashpay/rs-bip37-bloom-filter): parameter          *)
(* derivation, seeded murmur3 hashing, builder mutation, finalization and  *)
(* membership queries, modelled from src/builder.rs, src/hasher.rs and     *)
(* src/filter.rs.                                                          *)
(*                                                                         *)
(* Number representation.  TLC integers are 32-bit signed, so a Rust u32   *)
(* is modelled as a pair <<hi, lo>> of 16-bit halves (value hi*2^16 + lo)  *)
(* and all u32 arithmetic is done on halves with explicit wrap-around.     *)
(* An f64 is modelled as a record: a finite value is sign, whole part and  *)
(* millionths; NaN and the infinities are separate classes.                *)
(***************************************************************************)
EXTENDS Integers, Sequences, FiniteSets, TLC

(***************************************************************************)
(* u32 arithmetic on 16-bit halves                                         *)
(***************************************************************************)
Hi(x) == x[1]
Lo(x) == x[2]

\* A small natural number as a u32.
ToU32(n) == <<(n \div 65536) % 65536, n % 65536>>

\* Product of two 16-bit values, as the pair <<carry, low 16 bits>>.
Mul16(a, b) ==
  LET p0 == (a % 256) * b
      p1 == (a \div 256) * b
      s  == p0 + (p1 % 256) * 256
  IN  <<(s \div 65536 + p1 \div 256) % 65536, s % 65536>>

\* u32::overflowing_mul(a, b).0 / wrapping multiplication.
WrappingMul(a, b) ==
  LET ll == Mul16(Lo(a), Lo(b))
      hl == Mul16(Hi(a), Lo(b))
      lh == Mul16(Lo(a), Hi(b))
  IN  <<(Hi(ll) + Lo(hl) + Lo(lh)) % 65536, Lo(ll)>>

\* The carry out of a + b: TRUE when the u32 addition overflows.
AddOverflows(a, b) ==
  Hi(a) + Hi(b) + ((Lo(a) + Lo(b)) \div 65536) >= 65536

\* a + b reduced modulo 2^32.
WrappingAdd(a, b) ==
  <<(Hi(a) + Hi(b) + ((Lo(a) + Lo(b)) \div 65536)) % 65536, (Lo(a) + Lo(b)) % 65536>>

\* Bitwise exclusive or of two n-bit values.
RECURSIVE XorBits(_, _, _)
XorBits(a, b, n) ==
  IF n = 0 THEN 0
  ELSE ((a + b) % 2) + 2 * XorBits(a \div 2, b \div 2, n - 1)

\* The exclusive or of two 4-bit values, tabulated.
XorNibble == [a \in 0..15 |-> [b \in 0..15 |-> XorBits(a, b, 4)]]

Xor16(a, b) ==
  XorNibble[a % 16][b % 16]
  + 16 * XorNibble[(a \div 16) % 16][(b \div 16) % 16]
  + 256 * XorNibble[(a \div 256) % 16][(b \div 256) % 16]
  + 4096 * XorNibble[a \div 4096][b \div 4096]

\* a ^ b
Xor32(a, b) == <<Xor16(Hi(a), Hi(b)), Xor16(Lo(a), Lo(b))>>

RECURSIVE Pow2(_)
Pow2(n) == IF n = 0 THEN 1 ELSE 2 * Pow2(n - 1)

\* x.rotate_left(r), 0 < r < 16.
RotlSmall(x, r) ==
  LET p == Pow2(r)
      q == Pow2(16 - r)
  IN  <<((Hi(x) % q) * p + Lo(x) \div q) % 65536,
        ((Lo(x) % q) * p + Hi(x) \div q) % 65536>>

\* x.rotate_left(r), 0 < r < 32, r # 16.
RotateLeft(x, r) ==
  IF r < 16 THEN RotlSmall(x, r) ELSE RotlSmall(<<Lo(x), Hi(x)>>, r - 16)

\* x >> r, 0 < r <= 16.
Shr(x, r) ==
  LET q == Pow2(r)
      p == Pow2(16 - r)
  IN  <<Hi(x) \div q, ((Hi(x) % q) * p + Lo(x) \div q) % 65536>>

\* (x as usize) % m for 0 < m < 2^23.
RemUsize(x, m) ==
  LET t1 == (Hi(x) * 256) % m
      t2 == (t1 * 256) % m
  IN  (t2 + Lo(x)) % m

(***************************************************************************)
(* murmur3::murmur3_32 (the hash function called by Hasher::hash_indexes)  *)
(***************************************************************************)
MurmurC1 == <<52382, 11601>>  \* 0xcc9e2d51
MurmurC2 == <<7047, 13715>>   \* 0x1b873593
BlockN == <<58964, 27492>>  \* 0xe6546b64
Fmix1 == <<34283, 51819>>   \* 0x85ebca6b
Fmix2 == <<49842, 44597>>   \* 0xc2b2ae35

\* Little-endian u32 of up to four bytes.
LeBytes(bs) ==
  LET b(i) == IF i <= Len(bs) THEN bs[i] ELSE 0
  IN  <<b(4) * 256 + b(3), b(2) * 256 + b(1)>>

MixK(k) == WrappingMul(RotateLeft(WrappingMul(k, MurmurC1), 15), MurmurC2)

RECURSIVE MurmurBody(_, _)
MurmurBody(h, bs) ==
  IF Len(bs) >= 4
  THEN LET h1 == Xor32(h, MixK(LeBytes(SubSeq(bs, 1, 4))))
           h2 == RotateLeft(h1, 13)
           h3 == WrappingAdd(WrappingMul(h2, ToU32(5)), BlockN)
       IN  MurmurBody(h3, SubSeq(bs, 5, Len(bs)))
  ELSE IF Len(bs) > 0 THEN Xor32(h, MixK(LeBytes(bs)))
  ELSE h

Fmix32(h) ==
  LET a == Xor32(h, Shr(h, 16))
      b == WrappingMul(a, Fmix1)
      c == Xor32(b, Shr(b, 13))
      d == WrappingMul(c, Fmix2)
  IN  Xor32(d, Shr(d, 16))

murmur3_32(item, seed) == Fmix32(Xor32(MurmurBody(seed, item), ToU32(Len(item))))

(***************************************************************************)
(* f64 arithmetic of the parameter derivation                              *)
(*                                                                         *)
(* A false-positive rate is named by its decimal literal.  The table gives *)
(* -1/ln(2)^2 * ln(rate) to six decimals (truncated), or the IEEE special  *)
(* value the expression takes: ln(0) = -inf, ln of a negative is NaN.      *)
(***************************************************************************)
Finite(neg, whole, micro) == [cls |-> "fin", neg |-> neg, whole |-> whole, micro |-> micro]
NaN == [cls |-> "nan", neg |-> FALSE, whole |-> 0, micro |-> 0]
Infinity(neg) == [cls |-> "inf", neg |-> neg, whole |-> 0, micro |-> 0]

FpRates == {"0.001", "0.01", "0.1", "0.5", "0.9", "0.0000001", "1.0", "2.0", "0.0", "-1.0"}

NegLnOverLn2Sq(false_positives_rate) ==
  CASE false_positives_rate = "0.0000001" -> Finite(FALSE, 33, 547704)
    [] false_positives_rate = "0.001"     -> Finite(FALSE, 14, 377587)
    [] false_positives_rate = "0.01"      -> Finite(FALSE, 9, 585058)
    [] false_positives_rate = "0.1"       -> Finite(FALSE, 4, 792529)
    [] false_positives_rate = "0.5"       -> Finite(FALSE, 1, 442695)
    [] false_positives_rate = "0.9"       -> Finite(FALSE, 0, 219294)
    [] false_positives_rate = "1.0"       -> Finite(TRUE, 0, 0)
    [] false_positives_rate = "2.0"       -> Finite(TRUE, 1, 442695)
    [] false_positives_rate = "0.0"       -> Infinity(FALSE)
    [] false_positives_rate = "-1.0"      -> NaN

\* Every integer at or above this value stands for "at least this much": the
\* `as u64` cast saturates here instead of at u64::MAX (its only consumer
\* divides by 8 and compares with 36_000).
U64Saturated == 2147483647

SatMul(a, b) ==
  IF a = 0 \/ b = 0 THEN 0
  ELSE IF a > U64Saturated \div b THEN U64Saturated ELSE a * b

SatAdd(a, b) == IF a > U64Saturated - b THEN U64Saturated ELSE a + b

\* n * (micro / 10^6) for n < 2^31, micro < 10^6, as <<whole part, millionths>>,
\* computed on three decimal limbs of n so that no product leaves 32 bits.
MulMicro(n, micro) ==
  LET n2 == n \div 1000000
      n1 == (n \div 1000) % 1000
      n0 == n % 1000
      t1 == n1 * micro
      t0 == (t1 % 1000) * 1000 + n0 * micro
  IN  <<n2 * micro + t1 \div 1000 + t0 \div 1000000, t0 % 1000000>>

\* -1.0 / 2.0_f64.ln().powi(2) * n_elements as f64 * false_positives_rate.ln()
OptimalBits(n_elements, false_positives_rate) ==
  LET c == NegLnOverLn2Sq(false_positives_rate)
      f == MulMicro(n_elements, c.micro)
  IN  CASE c.cls = "nan" -> NaN
        [] c.cls = "inf" -> IF n_elements = 0 THEN NaN ELSE c
        [] OTHER -> Finite(c.neg, SatAdd(SatMul(n_elements, c.whole), f[1]), f[2])

\* The cast rounding up instead of dropping the fraction.
AsU64_round_up(x) ==
  CASE x.cls = "nan" -> 0
    [] x.cls = "inf" -> IF x.neg THEN 0 ELSE U64Saturated
    [] OTHER -> IF x.neg THEN 0
                ELSE IF x.micro > 0 THEN SatAdd(x.whole, 1) ELSE x.whole

\* `x as u64`: NaN and negative values become 0, the fraction is dropped,
\* values beyond the range saturate.
AsU64(x) ==
  CASE x.cls = "nan" -> 0
    [] x.cls = "inf" -> IF x.neg THEN 0 ELSE U64Saturated
    [] OTHER -> IF x.neg THEN 0 ELSE x.whole

Ok(v) == [ok |-> TRUE, val |-> v]
BadFilterParameters == [ok |-> FALSE, val |-> 0]

\* filter_size with the size guard off by one (s <= 36_000).
filter_size_inclusive(n_elements, false_positives_rate) ==
  LET s == AsU64(OptimalBits(n_elements, false_positives_rate)) \div 8
  IN  IF s <= 36000 THEN Ok(s) ELSE BadFilterParameters

\* BloomFilterBuilder::filter_size.  The u64 -> usize try_into can fail only
\* for values that are rejected by the size guard anyway.
filter_size(n_elements, false_positives_rate) ==
  LET s == AsU64(OptimalBits(n_elements, false_positives_rate)) \div 8
  IN  IF s < 36000 THEN Ok(s) ELSE BadFilterParameters

\* hash_fns_number never returning less than one hash function.
hash_fns_number_at_least_one(n_elements, size) ==
  LET bits == size * 8
      n == IF n_elements = 0 THEN 0
           ELSE ((bits * 693 + (bits * 147) \div 1000) \div 1000) \div n_elements
  IN  IF n = 0 THEN 1 ELSE n

\* BloomFilterBuilder::hash_fns_number: ((filter_size * 8) as f64 /
\* n_elements as f64 * 2_f64.ln()) as u32 with ln 2 = 0.693147; 0/0 is NaN
\* and casts to 0, x/0 is +inf and saturates (shown as the saturation value).
hash_fns_number(n_elements, size) ==
  LET bits == size * 8
  IN  IF n_elements = 0
      THEN IF bits = 0 THEN 0 ELSE U64Saturated
      ELSE ((bits * 693 + (bits * 147) \div 1000) \div 1000) \div n_elements

(***************************************************************************)
(* Hasher (src/hasher.rs)                                                  *)
(***************************************************************************)
\* The outcome of an operation that panicked (division by zero, a failed
\* expect, an overflow caught by overflow checks).
Panic == -1

\* hash_index reducing modulo one more than the bit-array length.
hash_index_off_by_one(hasher, item, seed) ==
  RemUsize(murmur3_32(item, seed), hasher.filter_bits_len + 1)

\* One step of the map closure of Hasher::hash_indexes:
\* (murmur3_32(item, seed) as usize) % self.filter_bits_len.
hash_index(hasher, item, seed) ==
  IF hasher.filter_bits_len = 0 THEN Panic
  ELSE RemUsize(murmur3_32(item, seed), hasher.filter_bits_len)

\* Hasher::hash_indexes: one index per seed, in seed order.
hash_indexes(hasher, item) ==
  [k \in 1..Len(hasher.hash_seeds) |-> hash_index(hasher, item, hasher.hash_seeds[k])]

(***************************************************************************)
(* BloomFilterBuilder (src/builder.rs)                                     *)
(***************************************************************************)
\* The result of a call: it panicked, or returned val.
Panicked == [panic |-> TRUE, val |-> <<>>]
Done(v) == [panic |-> FALSE, val |-> v]

SeedMultiplier == <<64420, 51093>>  \* 0xFBA4C795

\* The closure of new_n_tweak's seed map without the final `+ n_tweak`.
SeedProduct(i) == WrappingMul(ToU32(i), SeedMultiplier)

\* repeat leaving the first bit set.
Repeat_dirty(bit, len) == [i \in 1..len |-> IF i = 1 THEN ~bit ELSE bit]

\* BitVec::<u8>::repeat(false, len)
Repeat(bit, len) == [i \in 1..len |-> bit]

\* SetBit flipping the bit instead of setting it.
SetBit_toggle(bits, hash) ==
  IF hash = Panic \/ hash >= Len(bits) THEN Panicked
  ELSE Done([bits EXCEPT ![hash + 1] = ~bits[hash + 1]])

\* filter_bits.get_mut(hash) = true; a None from get_mut fails the expect.
\* Bit index i of the BitVec is element i + 1 of the sequence.
SetBit(bits, hash) ==
  IF hash = Panic \/ hash >= Len(bits) THEN Panicked
  ELSE Done([bits EXCEPT ![hash + 1] = TRUE])

\* The loop of add_element stopping one index early.
RECURSIVE SetBits_skip_last(_, _, _)
SetBits_skip_last(bits, indexes, k) ==
  IF k >= Len(indexes) THEN Done(bits)
  ELSE LET next == SetBit(bits, indexes[k])
       IN  IF next.panic THEN Panicked ELSE SetBits_skip_last(next.val, indexes, k + 1)

\* The for loop of add_element over the (lazy) index iterator.
RECURSIVE SetBits(_, _, _)
SetBits(bits, indexes, k) ==
  IF k > Len(indexes) THEN Done(bits)
  ELSE LET next == SetBit(bits, indexes[k])
       IN  IF next.panic THEN Panicked ELSE SetBits(next.val, indexes, k + 1)

\* filter_bits.get(i).as_deref().copied().unwrap_or_default()
GetBit(bits, i) == IF i < Len(bits) THEN bits[i + 1] ELSE FALSE

\* Iterator::any in place of Iterator::all.
RECURSIVE AnySet(_, _, _)
AnySet(bits, indexes, k) ==
  IF k > Len(indexes) THEN Done(FALSE)
  ELSE IF indexes[k] = Panic THEN Panicked
  ELSE IF GetBit(bits, indexes[k]) THEN Done(TRUE)
  ELSE AnySet(bits, indexes, k + 1)

\* Iterator::all over the lazy index iterator: stops at the first unset bit;
\* computing an index panics when the bit array is empty.
RECURSIVE AllSet(_, _, _)
AllSet(bits, indexes, k) ==
  IF k > Len(indexes) THEN Done(TRUE)
  ELSE IF indexes[k] = Panic THEN Panicked
  ELSE IF GetBit(bits, indexes[k]) THEN AllSet(bits, indexes, k + 1)
  ELSE Done(FALSE)

\* BloomFilter::probably_contains
probably_contains(f, item) == AllSet(f.filter_bits, hash_indexes(f.hasher, item), 1)

\* BitVec<u8> -> Vec<u8> (Lsb0: bit i lives in byte i / 8 with weight 2^(i % 8)).
IntoBytes(bits) ==
  [j \in 1..(Len(bits) \div 8) |->
     LET w(b) == IF bits[8 * (j - 1) + b + 1] THEN Pow2(b) ELSE 0
     IN  w(0) + w(1) + w(2) + w(3) + w(4) + w(5) + w(6) + w(7)]

(***************************************************************************)
(* Inputs                                                                  *)
(***************************************************************************)
MaxAdds == 3

\* The (n_elements, false_positives_rate) pairs builders are constructed with:
\* bit arrays of 0, 8, 24 and 40 bits with 0, 1, 2, 5 and 9 seeds, a rejected
\* pair, and a rate outside (0, 1).
Parameters ==
  { <<0, "0.001">>, <<1, "0.001">>, <<3, "0.001">>, <<3, "0.1">>, <<6, "0.1">>,
    <<6, "0.5">>, <<1, "0.5">>, <<1, "2.0">>, <<1, "0.0">> }
\* The n_elements values filter_size is applied to on its own.
MaxSmallElements == 8
SizeElements ==
  (0..MaxSmallElements) \cup
  { 100, 2503, 2504, 20030, 20031, 20032, 20033, 30047, 60000, 1313313,
    100000000, 2147483647 }
Tweaks == {<<0, 0>>, <<0, 5>>, <<65535, 65535>>}
Flags == {<<0, 0>>, <<0, 1>>}
Items == {<<>>, <<97>>, <<107, 101, 107, 49>>, <<107, 101, 107, 52>>}

\* A value that does not exist (not yet created, moved out, or dropped).
Absent == [absent |-> TRUE]

VARIABLES
  pc,       \* "start", "builder", "filter", "data", "failed", "panicked"
  args,     \* the arguments of the constructor call
  builder,  \* BloomFilterBuilder
  filter,   \* BloomFilter
  data,     \* BloomFilterData
  answer,   \* the last probably_contains call and its result
  added,    \* the elements passed to add_element so far
  n_adds,   \* the number of add_element calls so far
  aborted,  \* the operation that panicked, or "none"
  ret       \* the value returned by a direct call of filter_size

vars == <<pc, args, builder, filter, data, answer, added, n_adds, aborted, ret>>

Init ==
  /\ pc = "start"
  /\ args = Absent
  /\ builder = Absent
  /\ filter = Absent
  /\ data = Absent
  /\ answer = Absent
  /\ added = {}
  /\ n_adds = 0
  /\ aborted = "none"
  /\ ret = Absent

\* BloomFilterBuilder::new_n_tweak.  `+ n_tweak` is a plain u32 addition: on
\* overflow it panics when the build has overflow checks and wraps otherwise.
new_n_tweak(n_elements, false_positives_rate, n_tweak, overflow_checks) ==
  /\ pc = "start"
  /\ args' = [n_elements |-> n_elements,
              false_positives_rate |-> false_positives_rate,
              n_tweak |-> n_tweak]
  /\ LET size == filter_size(n_elements, false_positives_rate)
         n_hashes == hash_fns_number(n_elements, size.val)
         hash_seeds == [k \in 1..n_hashes |-> WrappingAdd(SeedProduct(k - 1), n_tweak)]
         overflow == \E k \in 1..n_hashes : AddOverflows(SeedProduct(k - 1), n_tweak)
         bits == Repeat(FALSE, size.val * 8)
     IN  IF ~size.ok
         THEN /\ pc' = "failed"
              /\ UNCHANGED <<builder, aborted>>
         ELSE IF overflow /\ overflow_checks
         THEN /\ pc' = "panicked"
              /\ aborted' = "new_n_tweak"
              /\ UNCHANGED builder
         ELSE /\ pc' = "builder"
              /\ builder' = [n_tweak |-> n_tweak,
                             filter_bits |-> bits,
                             hasher |-> [filter_bits_len |-> Len(bits),
                                         hash_seeds |-> hash_seeds]]
              /\ UNCHANGED aborted
  /\ UNCHANGED <<filter, data, answer, added, n_adds, ret>>

\* BloomFilterBuilder::new
new(n_elements, false_positives_rate, overflow_checks) ==
  new_n_tweak(n_elements, false_positives_rate, <<0, 0>>, overflow_checks)

\* BloomFilterBuilder::add_element
add_element(element) ==
  /\ pc = "builder"
  /\ n_adds < MaxAdds
  /\ LET bits == SetBits(builder.filter_bits, hash_indexes(builder.hasher, element), 1)
     IN  IF bits.panic
         THEN /\ pc' = "panicked"
              /\ aborted' = "add_element"
              /\ builder' = Absent
         ELSE /\ builder' = [builder EXCEPT !.filter_bits = bits.val]
              /\ UNCHANGED <<pc, aborted>>
  /\ added' = added \cup {element}
  /\ n_adds' = n_adds + 1
  /\ UNCHANGED <<args, filter, data, answer, ret>>

\* build_with_n_flags dropping its argument.
build_with_n_flags_dropped(n_flags) ==
  /\ pc = "builder"
  /\ pc' = "filter"
  /\ filter' = [filter_bits |-> builder.filter_bits,
                n_tweak |-> builder.n_tweak,
                n_flags |-> <<0, 0>>,
                hasher |-> builder.hasher]
  /\ builder' = Absent
  /\ UNCHANGED <<args, data, answer, added, n_adds, aborted, ret>>

\* BloomFilterBuilder::build_with_n_flags
build_with_n_flags(n_flags) ==
  /\ pc = "builder"
  /\ pc' = "filter"
  /\ filter' = [filter_bits |-> builder.filter_bits,
                n_tweak |-> builder.n_tweak,
                n_flags |-> n_flags,
                hasher |-> builder.hasher]
  /\ builder' = Absent
  /\ UNCHANGED <<args, data, answer, added, n_adds, aborted, ret>>

\* BloomFilterBuilder::build
build ==
  /\ pc = "builder"
  /\ pc' = "filter"
  /\ filter' = [filter_bits |-> builder.filter_bits,
                n_tweak |-> builder.n_tweak,
                n_flags |-> <<0, 0>>,
                hasher |-> builder.hasher]
  /\ builder' = Absent
  /\ UNCHANGED <<args, data, answer, added, n_adds, aborted, ret>>

\* A call of BloomFilter::probably_contains(&self, item)
query(item) ==
  /\ pc = "filter"
  /\ LET r == probably_contains(filter, item)
     IN  IF r.panic
         THEN /\ pc' = "panicked"
              /\ aborted' = "probably_contains"
              /\ UNCHANGED answer
         ELSE /\ answer' = [item |-> item, result |-> r.val]
              /\ UNCHANGED <<pc, aborted>>
  /\ UNCHANGED <<args, builder, filter, data, added, n_adds, ret>>

\* impl From<BloomFilter> for BloomFilterData
into_data ==
  /\ pc = "filter"
  /\ pc' = "data"
  /\ data' = [v_data |-> IntoBytes(filter.filter_bits),
              n_hash_funcs |-> Len(filter.hasher.hash_seeds),
              n_tweak |-> filter.n_tweak,
              n_flags |-> filter.n_flags]
  /\ filter' = Absent
  /\ UNCHANGED <<args, builder, answer, added, n_adds, aborted, ret>>

Next ==
  \/ \E p \in Parameters, t \in Tweaks, c \in BOOLEAN : new_n_tweak(p[1], p[2], t, c)
  \/ \E p \in Parameters, c \in BOOLEAN : new(p[1], p[2], c)
  \/ \E e \in Items : add_element(e)
  \/ build
  \/ \E f \in Flags : build_with_n_flags(f)
  \/ \E i \in Items : query(i)
  \/ into_data

Spec == Init /\ [][Next]_vars

(***************************************************************************)
(* filter_size on its own: the arguments are drawn in the initial state    *)
(* and the one action applies the function.                                *)
(***************************************************************************)
SizeInit ==
  /\ pc = "call"
  /\ args \in { [n_elements |-> n, false_positives_rate |-> r, n_tweak |-> <<0, 0>>] :
                  n \in SizeElements, r \in FpRates }
  /\ builder = Absent
  /\ filter = Absent
  /\ data = Absent
  /\ answer = Absent
  /\ added = {}
  /\ n_adds = 0
  /\ aborted = "none"
  /\ ret = Absent

call_filter_size ==
  /\ pc = "call"
  /\ pc' = "returned"
  /\ ret' = filter_size(args.n_elements, args.false_positives_rate)
  /\ UNCHANGED <<args, builder, filter, data, answer, added, n_adds, aborted>>

SizeNext == call_filter_size

SizeSpec == SizeInit /\ [][SizeNext]_vars

(***************************************************************************)
(* Properties                                                              *)
(***************************************************************************)
\* The bit indexes that are set.
TrueBits(bits) == {i \in 0..(Len(bits) - 1) : bits[i + 1]}

Range(f) == {f[k] : k \in DOMAIN f}

Live == pc \in {"builder", "filter"}
CurrentBits == IF pc = "builder" THEN builder.filter_bits ELSE filter.filter_bits
CurrentHasher == IF pc = "builder" THEN builder.hasher ELSE filter.hasher
Asked == pc = "filter" /\ answer # Absent

\* C1: no false negatives -- on a built filter, probably_contains answers true
\* for every element that was passed to add_element before the build.
NoFalseNegatives == (Asked /\ answer.item \in added) => answer.result = TRUE

NoFalseNegativesWitness ==
  /\ Asked
  /\ answer.item \in added
  /\ answer.result = TRUE
  /\ Cardinality(added) >= 2
  /\ Len(filter.hasher.hash_seeds) >= 2
  /\ Cardinality(TrueBits(filter.filter_bits)) < Len(filter.filter_bits)

\* The value of the size formula, -n_elements * ln(fp_rate) / ln(2)^2, for the
\* constructor arguments of this behaviour.
Formula == OptimalBits(args.n_elements, args.false_positives_rate)

IsNegative(x) == x.cls # "nan" /\ x.neg /\ (x.cls = "inf" \/ x.whole > 0 \/ x.micro > 0)

\* ceil(x / 8) >= 36_000 for a finite x >= 0, i.e. x > 8 * 35_999.
CeilAtLeastCeiling(x) == x.whole > 287992 \/ (x.whole = 287992 /\ x.micro > 0)

\* ceil(x / 8) for a finite x >= 0 below the saturation value.
CeilBytes(x) ==
  IF x.whole % 8 = 0 /\ x.micro = 0 THEN x.whole \div 8 ELSE x.whole \div 8 + 1

\* The formula's value truncated to a natural number, negatives and NaN as 0.
Truncated(x) ==
  IF x.cls = "fin" /\ ~x.neg THEN x.whole
  ELSE IF x.cls = "inf" /\ ~x.neg THEN U64Saturated ELSE 0

Returned == pc = "returned"

\* C2 as stated: filter_size fails exactly when ceil(formula / 8) >= 36,000 or
\* the formula's value is negative or does not fit (infinite, NaN).
CeilingRejectsExactly ==
  Returned =>
    (~ret.ok <=> \/ Formula.cls # "fin"
                 \/ IsNegative(Formula)
                 \/ CeilAtLeastCeiling(Formula))

\* C2 amended: filter_size fails exactly when the formula's value is at least
\* 288,000 bits (36,000 bytes after truncation); negative and NaN values are
\* cast to 0 and accepted with size 0.
CeilingRejectsTruncated ==
  Returned => (~ret.ok <=> Truncated(Formula) >= 288000)

CeilingWitness ==
  /\ Returned
  /\ args.n_elements = 20031
  /\ args.false_positives_rate = "0.001"
  /\ ret = Ok(35999)

ConstructionInfallible ==
  (pc # "start" /\ filter_size(args.n_elements, args.false_positives_rate).ok) =>
    /\ aborted # "new_n_tweak"
    /\ pc = "builder" =>
         \A k \in DOMAIN builder.hasher.hash_seeds :
           /\ ~AddOverflows(SeedProduct(k - 1), builder.n_tweak)
           /\ builder.hasher.hash_seeds[k] = WrappingAdd(SeedProduct(k - 1), builder.n_tweak)

\* C5: add_element, build, build_with_n_flags and probably_contains never
\* panic, whatever builder the constructor returned.
OperationsTotal == aborted \notin {"add_element", "build", "build_with_n_flags", "probably_contains"}

OperationsTotalWitness ==
  /\ Asked
  /\ args.n_elements = 0
  /\ Len(filter.filter_bits) = 0
  /\ n_adds >= 2
  /\ Cardinality(added) >= 2
  /\ aborted = "none"

\* C6: every index hash_indexes produces is below the bit-array length, which
\* is 8 times the derived byte size and below 288,000; there is one index per
\* seed, in seed order.
IndexBound ==
  Live =>
    /\ CurrentHasher.filter_bits_len = Len(CurrentBits)
    /\ Len(CurrentBits) = 8 * filter_size(args.n_elements, args.false_positives_rate).val
    /\ Len(CurrentBits) < 288000
    /\ \A item \in Items :
         LET indexes == hash_indexes(CurrentHasher, item)
         IN  /\ Len(indexes) = Len(CurrentHasher.hash_seeds)
             /\ \A k \in 1..Len(indexes) :
                  /\ indexes[k] \in 0..(Len(CurrentBits) - 1)
                  /\ indexes[k] = RemUsize(murmur3_32(item, CurrentHasher.hash_seeds[k]),
                                           Len(CurrentBits))

IndexBoundWitness ==
  /\ pc = "builder"
  /\ n_adds > 0
  /\ Len(builder.hasher.hash_seeds) = 9
  /\ \E item \in Items :
       Cardinality(Range(hash_indexes(builder.hasher, item))) >= 5

\* C7: adding an element that was already added leaves the bit array as it was.
IdempotentInsertion ==
  [][\A e \in Items :
       (add_element(e) /\ e \in added) => builder'.filter_bits = builder.filter_bits]_vars

IdempotentInsertionWitness ==
  /\ pc = "builder"
  /\ n_adds = 3
  /\ Cardinality(added) = 2
  /\ Cardinality(TrueBits(builder.filter_bits)) >= 4

\* C8: the bit array starts all-false, and add_element sets exactly the hash
\* indexes of the added item: earlier bits stay, nothing else changes.
BitsOnlySet ==
  [][/\ (pc = "start" /\ pc' = "builder") => TrueBits(builder'.filter_bits) = {}
     /\ \A e \in Items :
          (add_element(e) /\ pc' = "builder") =>
            /\ TrueBits(builder'.filter_bits) =
                 TrueBits(builder.filter_bits) \cup Range(hash_indexes(builder.hasher, e))
            /\ Len(builder'.filter_bits) = Len(builder.filter_bits)
            /\ builder'.hasher = builder.hasher
            /\ builder'.n_tweak = builder.n_tweak]_vars

BitsOnlySetWitness ==
  /\ pc = "builder"
  /\ n_adds = 2
  /\ Cardinality(added) = 2
  /\ \E e \in added :
       /\ Range(hash_indexes(builder.hasher, e)) # {}
       /\ Range(hash_indexes(builder.hasher, e)) # TrueBits(builder.filter_bits)

\* C9: build and build_with_n_flags hand the builder's bit array, hasher and
\* n_tweak to the filter unchanged, with n_flags 0 or the argument; the
\* exported data repeats them with the derived seed count and byte length;
\* probably_contains changes nothing.
HandOver ==
  [][/\ build =>
          /\ filter'.filter_bits = builder.filter_bits
          /\ filter'.hasher = builder.hasher
          /\ filter'.n_tweak = builder.n_tweak
          /\ filter'.n_tweak = args.n_tweak
          /\ filter'.n_flags = <<0, 0>>
     /\ \A f \in Flags :
          build_with_n_flags(f) =>
            /\ filter'.filter_bits = builder.filter_bits
            /\ filter'.hasher = builder.hasher
            /\ filter'.n_tweak = builder.n_tweak
            /\ filter'.n_tweak = args.n_tweak
            /\ filter'.n_flags = f
     /\ into_data =>
          LET size == filter_size(args.n_elements, args.false_positives_rate).val
          IN  /\ data'.n_hash_funcs = hash_fns_number(args.n_elements, size)
              /\ data'.n_hash_funcs = Len(filter.hasher.hash_seeds)
              /\ data'.n_tweak = filter.n_tweak
              /\ data'.n_flags = filter.n_flags
              /\ Len(data'.v_data) = size
              /\ \A i \in 0..(8 * size - 1) :
                   filter.filter_bits[i + 1] <=>
                     (data'.v_data[i \div 8 + 1] \div Pow2(i % 8)) % 2 = 1
     /\ (pc = "filter" /\ pc' = "filter") =>
          /\ \E i \in Items : answer'.item = i
          /\ filter' = filter]_vars

HandOverWitness ==
  /\ pc = "data"
  /\ data.n_flags = <<0, 1>>
  /\ data.n_tweak = <<0, 5>>
  /\ data.n_hash_funcs = 9
  /\ Len(data.v_data) = 5
  /\ \E j \in 1..5 : data.v_data[j] # 0
  /\ answer # Absent

\* C10: a filter with nothing added answers false for every item when it has
\* at least one seed; a filter with no seed answers true for every item,
\* whatever was added; there is no seed when the byte size or n_elements is 0.
EmptyFilterAnswers ==
  /\ Asked =>
       /\ (added = {} /\ Len(filter.hasher.hash_seeds) >= 1) => answer.result = FALSE
       /\ Len(filter.hasher.hash_seeds) = 0 => answer.result = TRUE
  /\ (Live /\ (Len(CurrentBits) = 0 \/ args.n_elements = 0)) =>
       Len(CurrentHasher.hash_seeds) = 0

EmptyFilterAnswersWitness ==
  /\ Asked
  /\ added = {}
  /\ Len(filter.hasher.hash_seeds) >= 1
  /\ answer.result = FALSE
====
